---- MODULE Spec2Model ----
(***************************************************************************)
(* Model of the Kong compliance-evidence harness (drata-kong-tests):       *)
(* BaseTest.run, the nine checks built by create_tests, the orchestrator   *)
(* main() with run_tests / print_summary / push_to_drata, and the two      *)
(* Drata sinks (DrataClient, DrataMockClient).                             *)
(*                                                                         *)
(* Python values are represented as follows:                               *)
(*   None / Optional[x]   a sequence of length 0 (None) or 1 (<<x>>)       *)
(*   dict                 a sequence of <<key, value>> pairs in insertion  *)
(*                        order; {} is << >>                               *)
(*   list                 a sequence                                       *)
(*   exception            a record [type, msg]                             *)
(*   transport failure    the status TransportError (no HTTP response)     *)
(*   time.time()          an integer number of clock ticks, TicksPerMs     *)
(*                        ticks to the millisecond                         *)
(***************************************************************************)
EXTENDS Integers, Sequences, FiniteSets, TLC

VARIABLES
    pc,            \* position of main(): "load", "clients", "run", "summary", "push", "export", "exit", "done"
    args,          \* parsed command line: [dry_run, verbose, output]
    env,           \* process environment: [missing, DRY_RUN, VERBOSE]
    config,        \* Config after load_config and the CLI override: <<>> or <<[dry_run, verbose]>>
    gw,            \* what the gateway answers to each check's requests
    konnect,       \* the shared KonnectClient handle: [control_plane_id]
    dataplane,     \* the shared DataplaneClient handle: [base_url, timeout]
    tests,         \* the list built by create_tests
    idx,           \* number of tests run_tests has finished
    results,       \* run_tests' results list of Evidence
    run_count,     \* how often each position's run() was invoked
    clock,         \* last reading of the wall clock
    console,       \* what was printed
    summary,       \* print_summary's counts: <<>> or <<[total, passed, failed, errors]>>
    drata,         \* the sink handle: [kind, submitted_evidence]
    network,       \* POSTs sent to the real Drata API, in order
    push_idx,      \* number of results push_to_drata has handled
    exported,      \* the --output document: <<>> or <<[results]>>
    exit_code,     \* <<>> until sys.exit, then <<code>>
    faults,        \* environment deviations spent so far
    executed,      \* what each execute() call did and the clock readings around it
    prev           \* observable outcome of the preceding run of the pair, <<>> if none

vars == <<pc, args, env, config, gw, konnect, dataplane, tests, idx, results,
          run_count, clock, console, summary, drata, network, push_idx,
          exported, exit_code, faults, executed, prev>>

----------------------------------------------------------------------------
(* Bounds of the model *)

\* environment deviations per run: a check answered off nominal, a clock
\* reading that is not a millisecond after the one before, a failed submission
MaxFaults == 1
\* resolution of the modelled clock
TicksPerMs == 2
\* length of the check lists the run harness runs
MaxTests == 2
\* length of the plugin and consumer lists a control plane answers with
MaxItems == 2

----------------------------------------------------------------------------
(* Python helpers *)

None == << >>
Some(x) == << x >>
EmptyDict == << >>
EmptyList == << >>

\* sum(1 for r in s if Test(r))
Count(s, Test(_)) == Len(SelectSeq(s, Test))

\* int(x / d) for an integer quotient: Python's int() truncates toward zero
TruncDiv(x, d) == IF x >= 0 THEN x \div d ELSE -((-x) \div d)

\* str(e): a KeyError prints the repr of its key, the others their message
StrExc(e) == IF e.type = "KeyError" THEN "'" \o e.msg \o "'" ELSE e.msg

----------------------------------------------------------------------------
(* tests/base.py: TestResult, EvidenceArtifact, Evidence, BaseTest *)

TestResult == {"PASS", "FAIL", "ERROR", "SKIP"}

\* result.value of the object execute returned as its result; anything that
\* is not a TestResult member has no attribute 'value'
IsTestResult(r) == r \in TestResult

\* asdict(a) of an EvidenceArtifact
ArtifactDict(a) ==
    << <<"type", a.type>>, <<"description", a.description>>, <<"data", a.data>> >>

EvidenceArtifact(type, description, data) ==
    [dataclass |-> TRUE, type |-> type, description |-> description, data |-> data]

\* datetime.isoformat() of a clock reading
IsoFormat(t) == <<"iso", t>>

\* time.time() differences are seconds; int(diff * 1000) truncates toward zero
DurationMs(start, end) == TruncDiv(end - start, TicksPerMs)

Evidence(test, timestamp, result, duration_ms, details, artifacts, error_message) ==
    [test_id         |-> test.test_id,
     test_name       |-> test.test_name,
     timestamp       |-> timestamp,
     result          |-> result,
     control_mapping |-> test.control_mapping,
     duration_ms     |-> duration_ms,
     details         |-> details,
     artifacts       |-> artifacts,
     error_message   |-> error_message]

\* what a call of execute() does: it returns a tuple, returns something that
\* is no tuple, or raises an Exception
Returned(result, details, artifacts) ==
    [kind |-> "return", result |-> result, details |-> details,
     artifacts |-> artifacts, exc |-> [type |-> "", msg |-> ""]]
Raised(type, msg) ==
    [kind |-> "raise", result |-> "", details |-> EmptyDict,
     artifacts |-> EmptyList, exc |-> [type |-> type, msg |-> msg]]
ReturnedNone ==
    [kind |-> "none", result |-> "", details |-> EmptyDict,
     artifacts |-> EmptyList, exc |-> [type |-> "", msg |-> ""]]

\* "except Exception": the exception classes that do not derive from Exception
\* pass through the handler
NotExceptions == {"KeyboardInterrupt", "SystemExit", "GeneratorExit"}
\* a handler that names the transport errors only
CaughtTransportOnly(e) == e.type = "ConnectionError"
Caught(e) == e.type \notin NotExceptions

\* the exception, if any, that the try block of run() ends with
TryBlockException(out) ==
    CASE out.kind = "raise" -> Some(out.exc)
      [] out.kind = "none"  ->
            Some([type |-> "TypeError", msg |-> "cannot unpack non-iterable NoneType object"])
      [] ~IsTestResult(out.result) ->
            Some([type |-> "AttributeError", msg |-> "object has no attribute 'value'"])
      [] \E i \in 1..Len(out.artifacts) : ~out.artifacts[i].dataclass ->
            Some([type |-> "TypeError", msg |-> "asdict() should be called on dataclass instances"])
      [] OTHER -> None

\* whether run() reads time.time() in the try block before the exception
\* handler reads it again (the tuple unpacked, Evidence construction raised)
ReadsClockTwice(out) == out.kind = "return" /\ TryBlockException(out) # None

\* whether an exception leaves run() instead of an Evidence
Propagates(out) ==
    TryBlockException(out) # None /\ ~Caught(TryBlockException(out)[1])

\* run() with a handler that builds the Evidence without error_message
RunWithoutMessage(test, out, ts, start, end, end2) ==
    IF TryBlockException(out) = None
    THEN Evidence(test, IsoFormat(ts), out.result, DurationMs(start, end),
                  out.details,
                  [i \in 1..Len(out.artifacts) |-> ArtifactDict(out.artifacts[i])],
                  None)
    ELSE Evidence(test, IsoFormat(ts), "ERROR",
                  DurationMs(start, IF ReadsClockTwice(out) THEN end2 ELSE end),
                  EmptyDict, EmptyList, None)

\* run() with a handler that records the exception's class name, not str(e)
RunWithClassName(test, out, ts, start, end, end2) ==
    IF TryBlockException(out) = None
    THEN Evidence(test, IsoFormat(ts), out.result, DurationMs(start, end),
                  out.details,
                  [i \in 1..Len(out.artifacts) |-> ArtifactDict(out.artifacts[i])],
                  None)
    ELSE Evidence(test, IsoFormat(ts), "ERROR",
                  DurationMs(start, IF ReadsClockTwice(out) THEN end2 ELSE end),
                  EmptyDict, EmptyList, Some(TryBlockException(out)[1].type))

\* BaseTest.run: timestamp and start are read before execute, end after it
\* (end2 is the handler's own reading when the try block got as far as its own)
Run(test, out, ts, start, end, end2) ==
    LET e == TryBlockException(out) IN
    IF e = None
    THEN Evidence(test, IsoFormat(ts), out.result, DurationMs(start, end),
                  out.details,
                  [i \in 1..Len(out.artifacts) |-> ArtifactDict(out.artifacts[i])],
                  None)
    ELSE Evidence(test, IsoFormat(ts), "ERROR",
                  DurationMs(start, IF ReadsClockTwice(out) THEN end2 ELSE end),
                  EmptyDict, EmptyList, Some(StrExc(e[1])))

----------------------------------------------------------------------------
(* clients/kong.py: DataplaneClient *)

\* the status of a request that got no HTTP response (timeout, refused
\* connection): session.request raises instead of returning
TransportError == 0 - 1

ConnectionErrorExc == [type |-> "ConnectionError", msg |-> "connection refused"]

\* a response body: kind is "dict", "list" (JSON of that shape) or "text"
\* (response.json() raises); consumer is "absent", "null" or "dict";
\* custom_id is None when the consumer object has no such key
Body(kind, consumer, custom_id) ==
    [kind |-> kind, consumer |-> consumer, custom_id |-> custom_id, error |-> None]
EmptyJson == Body("dict", "absent", None)
\* {"error": str(e)}
ErrorJson(e) == [EmptyJson EXCEPT !.error = Some(StrExc(e))]

\* the try/except around response.json(): a body that is no JSON reads as {}
JsonOrEmpty(body) == IF body.kind = "text" THEN EmptyJson ELSE body

\* DataplaneClient.health_check: (is_healthy, status_code, response_json)
health_check(resp) ==
    IF resp.status = TransportError
    THEN [is_healthy |-> FALSE, status_code |-> 0, json |-> ErrorJson(ConnectionErrorExc)]
    ELSE [is_healthy |-> resp.status = 200, status_code |-> resp.status,
          json |-> JsonOrEmpty(resp.body)]

\* test_rate_limit with a loop that ends at the first 429
test_rate_limit_stops_at_429(statuses, num_requests) ==
    LET Stop(i) == i = num_requests \/ statuses[i] = 429
        last == IF num_requests = 0 THEN 0
                ELSE CHOOSE i \in 1..num_requests :
                        Stop(i) /\ \A j \in 1..(i - 1) : ~Stop(j)
    IN  [i \in 1..last |-> IF statuses[i] = TransportError THEN 0 ELSE statuses[i]]

\* DataplaneClient.test_rate_limit: one status per request, 0 for a request
\* that raised; the loop has no break
RECURSIVE test_rate_limit(_, _)
test_rate_limit(statuses, num_requests) ==
    IF num_requests = 0 THEN << >>
    ELSE Append(test_rate_limit(statuses, num_requests - 1),
                IF statuses[num_requests] = TransportError
                THEN 0 ELSE statuses[num_requests])

\* DataplaneClient.get_whoami: (status_code, response_json)
get_whoami(resp) ==
    IF resp.status = TransportError
    THEN [status_code |-> 0, json |-> ErrorJson(ConnectionErrorExc)]
    ELSE [status_code |-> resp.status, json |-> JsonOrEmpty(resp.body)]

----------------------------------------------------------------------------
(* clients/kong.py: KonnectClient *)

\* KonnectClient._get_control_plane_id: the cached id, or the id looked up
\* in /v2/control-planes; cp is what that lookup answers, "found", "absent"
\* or "http_error".  Gives the exception raised, or None.
ControlPlaneException(handle, cp) ==
    IF handle.control_plane_id # None THEN None
    ELSE CASE cp = "http_error" -> Some([type |-> "HTTPError", msg |-> "500 Server Error"])
           [] cp = "absent"     -> Some([type |-> "ValueError", msg |-> "Control plane not found"])
           [] OTHER             -> None

\* the handle after _get_control_plane_id: a successful lookup is cached
ControlPlaneCached(handle, cp) ==
    IF handle.control_plane_id = None /\ cp = "found"
    THEN [handle EXCEPT !.control_plane_id = Some("cp-1")]
    ELSE handle

\* response.raise_for_status()
RaiseForStatus(status) ==
    IF status >= 400 \/ status = TransportError
    THEN Some([type |-> "HTTPError", msg |-> "HTTP error"])
    ELSE None

\* KongPlugin built from one item of /plugins: enabled defaults to True,
\* consumer_id is None without a consumer
KongPlugin(item) ==
    [id |-> item.id, name |-> item.name, enabled |-> item.enabled # "false",
     consumer_id |-> item.consumer]

\* KonnectClient.get_plugins(plugin_name): the items of that name, in order
get_plugins(items, plugin_name) ==
    LET Named(item) == item.name = plugin_name
        kept == SelectSeq(items, Named)
    IN  [i \in 1..Len(kept) |-> KongPlugin(kept[i])]

\* KonnectClient.get_consumers
get_consumers(items) ==
    [i \in 1..Len(items) |->
        [id |-> items[i].id, username |-> items[i].username,
         custom_id |-> items[i].custom_id]]

----------------------------------------------------------------------------
(* tests/runtime.py and tests/configuration.py: the nine checks *)

\* a check instance: its class, its three properties and its constructor
\* arguments (the shared client handles are the variables dataplane, konnect)
Test(cls, test_id, test_name, control_mapping, api_key, expected_custom_id) ==
    [cls |-> cls, test_id |-> test_id, test_name |-> test_name,
     control_mapping |-> control_mapping, api_key |-> api_key,
     expected_custom_id |-> expected_custom_id]

RT001_RateLimitFreeTier(api_key) ==
    Test("RT001", "RT-001", "Rate limiting enforces free tier (5 req/min)",
         <<"CC6.1", "CC6.3", "CC7.2">>, Some(api_key), None)
RT002_RateLimitProTier(api_key) ==
    Test("RT002", "RT-002", "Rate limiting enforces pro tier (60 req/min)",
         <<"CC6.1", "CC6.3", "CC7.2">>, Some(api_key), None)
RT003_InvalidKeyRejected ==
    Test("RT003", "RT-003", "Invalid API key rejected (401)",
         <<"CC6.1", "CC6.6">>, None, None)
RT004_MissingKeyRejected ==
    Test("RT004", "RT-004", "Missing API key rejected (401)",
         <<"CC6.1", "CC6.6">>, None, None)
RT005_ValidKeyAccepted(api_key) ==
    Test("RT005", "RT-005", "Valid API key accepted (200)",
         <<"CC6.1">>, Some(api_key), None)
RT006_ConsumerIdentityInjected(api_key, expected_custom_id) ==
    Test("RT006", "RT-006", "Consumer identity injected correctly",
         <<"CC6.1", "CC6.3">>, Some(api_key), Some(expected_custom_id))
CF001_AuthPluginEnabled ==
    Test("CF001", "CF-001", "Key authentication plugin enabled",
         <<"CC6.1", "CC8.1">>, None, None)
CF002_RateLimitPluginEnabled ==
    Test("CF002", "CF-002", "Rate limiting plugin enabled per consumer",
         <<"CC6.1", "CC6.3", "CC8.1">>, None, None)
CF003_AllConsumersHaveLimits ==
    Test("CF003", "CF-003", "All consumers have rate limits configured",
         <<"CC6.2", "CC6.3">>, None, None)

PassIf(passed) == IF passed THEN "PASS" ELSE "FAIL"

Is200(r) == r = 200
Is429(r) == r = 429

RT001_num_requests == 8
RT001_expected_limit == 5

\* RT001 passing as soon as one request was rate limited
RT001_execute_any_429(test, statuses) ==
    LET res == test_rate_limit(statuses, RT001_num_requests)
        success_count == Count(res, Is200)
        rate_limited_count == Count(res, Is429)
        passed == rate_limited_count > 0
    IN  Returned(PassIf(passed),
                 << <<"api_key", test.api_key>>, <<"tier", "free_trial">>,
                    <<"expected_limit", RT001_expected_limit>>,
                    <<"requests_sent", RT001_num_requests>>,
                    <<"success_count", success_count>>,
                    <<"rate_limited_count", rate_limited_count>>,
                    <<"results", [i \in 1..Len(res) |-> [request |-> i, status |-> res[i]]]>>,
                    <<"rate_limit_triggered", rate_limited_count > 0>> >>,
                 << EvidenceArtifact("test_results",
                        "HTTP status codes for rate limit test", res) >>)

\* RT001_RateLimitFreeTier.execute; statuses is what the gateway answers
RT001_execute(test, statuses) ==
    LET res == test_rate_limit(statuses, RT001_num_requests)
        success_count == Count(res, Is200)
        rate_limited_count == Count(res, Is429)
        passed == rate_limited_count > 0 /\ success_count <= RT001_expected_limit
    IN  Returned(PassIf(passed),
                 << <<"api_key", test.api_key>>, <<"tier", "free_trial">>,
                    <<"expected_limit", RT001_expected_limit>>,
                    <<"requests_sent", RT001_num_requests>>,
                    <<"success_count", success_count>>,
                    <<"rate_limited_count", rate_limited_count>>,
                    <<"results", [i \in 1..Len(res) |-> [request |-> i, status |-> res[i]]]>>,
                    <<"rate_limit_triggered", rate_limited_count > 0>> >>,
                 << EvidenceArtifact("test_results",
                        "HTTP status codes for rate limit test", res) >>)

RT002_num_requests == 10

\* RT002 passing when no request was rate limited
RT002_execute_no_429(test, statuses) ==
    LET res == test_rate_limit(statuses, RT002_num_requests)
        success_count == Count(res, Is200)
        rate_limited_count == Count(res, Is429)
        passed == rate_limited_count = 0
    IN  Returned(PassIf(passed),
                 << <<"api_key", test.api_key>>, <<"tier", "pro">>,
                    <<"expected_limit", 60>>,
                    <<"requests_sent", RT002_num_requests>>,
                    <<"success_count", success_count>>,
                    <<"rate_limited_count", rate_limited_count>>,
                    <<"results", [i \in 1..Len(res) |-> [request |-> i, status |-> res[i]]]>>,
                    <<"all_passed", passed>> >>,
                 << EvidenceArtifact("test_results",
                        "HTTP status codes for pro tier test", res) >>)

\* RT002_RateLimitProTier.execute
RT002_execute(test, statuses) ==
    LET res == test_rate_limit(statuses, RT002_num_requests)
        success_count == Count(res, Is200)
        rate_limited_count == Count(res, Is429)
        passed == success_count = RT002_num_requests
    IN  Returned(PassIf(passed),
                 << <<"api_key", test.api_key>>, <<"tier", "pro">>,
                    <<"expected_limit", 60>>,
                    <<"requests_sent", RT002_num_requests>>,
                    <<"success_count", success_count>>,
                    <<"rate_limited_count", rate_limited_count>>,
                    <<"results", [i \in 1..Len(res) |-> [request |-> i, status |-> res[i]]]>>,
                    <<"all_passed", passed>> >>,
                 << EvidenceArtifact("test_results",
                        "HTTP status codes for pro tier test", res) >>)

\* the rejection checks accepting a 403 as well
RejectedExecute401or403(api_key_used, description, resp) ==
    IF resp.status = TransportError
    THEN Raised(ConnectionErrorExc.type, ConnectionErrorExc.msg)
    ELSE LET passed == resp.status \in {401, 403} IN
         Returned(PassIf(passed),
                  << <<"api_key_used", api_key_used>>, <<"expected_status", 401>>,
                     <<"actual_status", resp.status>>, <<"rejected", passed>> >>,
                  << EvidenceArtifact("http_response", description,
                         [status_code |-> resp.status]) >>)

\* RT003_InvalidKeyRejected.execute and RT004_MissingKeyRejected.execute:
\* dataplane.get is not wrapped, a transport failure leaves execute as an
\* exception (the response headers of the artifact are left out)
RejectedExecute(api_key_used, description, resp) ==
    IF resp.status = TransportError
    THEN Raised(ConnectionErrorExc.type, ConnectionErrorExc.msg)
    ELSE LET passed == resp.status = 401 IN
         Returned(PassIf(passed),
                  << <<"api_key_used", api_key_used>>, <<"expected_status", 401>>,
                     <<"actual_status", resp.status>>, <<"rejected", passed>> >>,
                  << EvidenceArtifact("http_response", description,
                         [status_code |-> resp.status]) >>)
RT003_execute(test, resp) ==
    RejectedExecute(Some("invalid-key-12345"), "Response from invalid key request", resp)
RT004_execute(test, resp) ==
    RejectedExecute(None, "Response from request without API key", resp)

\* RT005_ValidKeyAccepted.execute
RT005_execute(test, resp) ==
    LET h == health_check(resp)
        passed == h.status_code = 200
    IN  Returned(PassIf(passed),
                 << <<"api_key_used", test.api_key>>, <<"expected_status", 200>>,
                    <<"actual_status", h.status_code>>, <<"accepted", passed>>,
                    <<"health_response", h.json>> >>,
                 << EvidenceArtifact("http_response",
                        "Health check response with valid key", h.json) >>)

\* RT006 comparing the identity without looking at the status
RT006_execute_ignores_status(test, resp) ==
    LET w == get_whoami(resp)
        actual_custom_id ==
            IF w.json.consumer = "dict" /\ w.json.custom_id # None
            THEN w.json.custom_id[1] ELSE ""
        passed == actual_custom_id = test.expected_custom_id[1]
    IN  CASE w.json.kind = "list" ->
                Raised("AttributeError", "'list' object has no attribute 'get'")
          [] w.json.consumer = "null" ->
                Raised("AttributeError", "'NoneType' object has no attribute 'get'")
          [] OTHER ->
                Returned(PassIf(passed),
                    << <<"api_key_used", test.api_key>>,
                       <<"expected_custom_id", test.expected_custom_id[1]>>,
                       <<"actual_custom_id", actual_custom_id>>,
                       <<"consumer_info", w.json.consumer>>,
                       <<"identity_correct", passed>> >>,
                    << EvidenceArtifact("http_response",
                           "Whoami response showing consumer identity", w.json) >>)

\* RT006_ConsumerIdentityInjected.execute: .get on a JSON list, or on a
\* consumer that is null, raises AttributeError
RT006_execute(test, resp) ==
    LET w == get_whoami(resp)
        actual_custom_id ==
            IF w.json.consumer = "dict" /\ w.json.custom_id # None
            THEN w.json.custom_id[1] ELSE ""
        passed == w.status_code = 200 /\ actual_custom_id = test.expected_custom_id[1]
    IN  CASE w.json.kind = "list" ->
                Raised("AttributeError", "'list' object has no attribute 'get'")
          [] w.json.consumer = "null" ->
                Raised("AttributeError", "'NoneType' object has no attribute 'get'")
          [] OTHER ->
                Returned(PassIf(passed),
                    << <<"api_key_used", test.api_key>>,
                       <<"expected_custom_id", test.expected_custom_id[1]>>,
                       <<"actual_custom_id", actual_custom_id>>,
                       <<"consumer_info", w.json.consumer>>,
                       <<"identity_correct", passed>> >>,
                    << EvidenceArtifact("http_response",
                           "Whoami response showing consumer identity", w.json) >>)

\* the exception a configuration check's first admin request ends with:
\* _admin_url looks the control plane up, then the GET is checked
AdminException(handle, cp, status) ==
    IF ControlPlaneException(handle, cp) # None
    THEN ControlPlaneException(handle, cp)
    ELSE RaiseForStatus(status)

IsEnabled(p) == p.enabled
IsConsumerScoped(p) == p.consumer_id # None /\ p.enabled

\* CF001_AuthPluginEnabled.execute; a is what the admin API answers (of the
\* plugin configs, the service, route and config entries are left out)
CF001_execute(test, handle, a) ==
    LET e == AdminException(handle, a.cp, a.plugins_status)
        plugins == get_plugins(a.plugins, "key-auth")
        enabled_plugins == SelectSeq(plugins, IsEnabled)
        passed == Len(enabled_plugins) > 0
        plugin_configs == [i \in 1..Len(plugins) |->
                              [id |-> plugins[i].id, enabled |-> plugins[i].enabled]]
    IN  IF e # None THEN Raised(e[1].type, e[1].msg)
        ELSE Returned(PassIf(passed),
                 << <<"plugin_name", "key-auth">>, <<"total_found", Len(plugins)>>,
                    <<"enabled_count", Len(enabled_plugins)>>,
                    <<"plugin_configs", plugin_configs>>,
                    <<"auth_enforced", passed>> >>,
                 << EvidenceArtifact("config_snapshot",
                        "Key-auth plugin configuration", plugin_configs) >>)

\* CF002_RateLimitPluginEnabled.execute
CF002_execute(test, handle, a) ==
    LET e == AdminException(handle, a.cp, a.plugins_status)
        plugins == get_plugins(a.plugins, "rate-limiting")
        consumer_plugins == SelectSeq(plugins, IsConsumerScoped)
        passed == Len(consumer_plugins) > 0
        plugin_configs == [i \in 1..Len(plugins) |->
                              [id |-> plugins[i].id, enabled |-> plugins[i].enabled,
                               consumer_id |-> plugins[i].consumer_id]]
    IN  IF e # None THEN Raised(e[1].type, e[1].msg)
        ELSE Returned(PassIf(passed),
                 << <<"plugin_name", "rate-limiting">>, <<"total_found", Len(plugins)>>,
                    <<"consumer_scoped_count", Len(consumer_plugins)>>,
                    <<"plugin_configs", plugin_configs>>,
                    <<"rate_limiting_configured", passed>> >>,
                 << EvidenceArtifact("config_snapshot",
                        "Rate limiting plugin configuration", plugin_configs) >>)

\* CF003 passing for a control plane without consumers
CF003_execute_vacuous(test, handle, a) ==
    LET e1 == AdminException(handle, a.cp, a.consumers_status)
        e2 == RaiseForStatus(a.plugins_status)
        consumers == get_consumers(a.consumers)
        rate_limit_plugins == get_plugins(a.plugins, "rate-limiting")
        consumers_with_limits ==
            {rate_limit_plugins[i].consumer_id[1] :
                i \in {j \in 1..Len(rate_limit_plugins) :
                          IsConsumerScoped(rate_limit_plugins[j])}}
        consumer_coverage == [i \in 1..Len(consumers) |->
            [id |-> consumers[i].id, username |-> consumers[i].username,
             custom_id |-> consumers[i].custom_id,
             has_rate_limit |-> consumers[i].id \in consumers_with_limits]]
        Uncovered(c) == ~c.has_rate_limit
        Covered(c) == c.has_rate_limit
        uncovered == SelectSeq(consumer_coverage, Uncovered)
        missing_limits == [i \in 1..Len(uncovered) |-> uncovered[i].username]
        total_consumers == Len(consumers)
        covered_consumers == Count(consumer_coverage, Covered)
        passed == Len(missing_limits) = 0
    IN  CASE e1 # None -> Raised(e1[1].type, e1[1].msg)
          [] e2 # None -> Raised(e2[1].type, e2[1].msg)
          [] OTHER ->
             Returned(PassIf(passed),
                 << <<"total_consumers", total_consumers>>,
                    <<"consumers_with_limits", covered_consumers>>,
                    <<"missing_limits", missing_limits>>,
                    <<"consumer_coverage", consumer_coverage>>,
                    <<"full_coverage", passed>> >>,
                 << EvidenceArtifact("config_snapshot",
                        "Consumer rate limit coverage", consumer_coverage) >>)

\* CF003_AllConsumersHaveLimits.execute: consumers first, then the plugins
\* (the float coverage_percent of the details is left out)
CF003_execute(test, handle, a) ==
    LET e1 == AdminException(handle, a.cp, a.consumers_status)
        e2 == RaiseForStatus(a.plugins_status)
        consumers == get_consumers(a.consumers)
        rate_limit_plugins == get_plugins(a.plugins, "rate-limiting")
        consumers_with_limits ==
            {rate_limit_plugins[i].consumer_id[1] :
                i \in {j \in 1..Len(rate_limit_plugins) :
                          IsConsumerScoped(rate_limit_plugins[j])}}
        consumer_coverage == [i \in 1..Len(consumers) |->
            [id |-> consumers[i].id, username |-> consumers[i].username,
             custom_id |-> consumers[i].custom_id,
             has_rate_limit |-> consumers[i].id \in consumers_with_limits]]
        Uncovered(c) == ~c.has_rate_limit
        Covered(c) == c.has_rate_limit
        uncovered == SelectSeq(consumer_coverage, Uncovered)
        missing_limits == [i \in 1..Len(uncovered) |-> uncovered[i].username]
        total_consumers == Len(consumers)
        covered_consumers == Count(consumer_coverage, Covered)
        passed == Len(missing_limits) = 0 /\ total_consumers > 0
    IN  CASE e1 # None -> Raised(e1[1].type, e1[1].msg)
          [] e2 # None -> Raised(e2[1].type, e2[1].msg)
          [] OTHER ->
             Returned(PassIf(passed),
                 << <<"total_consumers", total_consumers>>,
                    <<"consumers_with_limits", covered_consumers>>,
                    <<"missing_limits", missing_limits>>,
                    <<"consumer_coverage", consumer_coverage>>,
                    <<"full_coverage", passed>> >>,
                 << EvidenceArtifact("config_snapshot",
                        "Consumer rate limit coverage", consumer_coverage) >>)

\* the KonnectClient handle after a configuration check's execute
KonnectAfter(test, handle, a) ==
    IF test.cls \in {"CF001", "CF002", "CF003"}
    THEN ControlPlaneCached(handle, a.cp) ELSE handle

\* execute() of a check of create_tests, given the gateway's answer to it
Execute(test, handle, answer) ==
    CASE test.cls = "RT001" -> RT001_execute(test, answer)
      [] test.cls = "RT002" -> RT002_execute(test, answer)
      [] test.cls = "RT003" -> RT003_execute(test, answer)
      [] test.cls = "RT004" -> RT004_execute(test, answer)
      [] test.cls = "RT005" -> RT005_execute(test, answer)
      [] test.cls = "RT006" -> RT006_execute(test, answer)
      [] test.cls = "CF001" -> CF001_execute(test, handle, answer)
      [] test.cls = "CF002" -> CF002_execute(test, handle, answer)
      [] test.cls = "CF003" -> CF003_execute(test, handle, answer)

----------------------------------------------------------------------------
(* The gateway: what it answers to each check *)

Resp(status, body) == [status |-> status, body |-> body]

HealthBody == Body("dict", "absent", None)
WhoamiBody(custom_id) == Body("dict", "dict", Some(custom_id))

Item(id, name, enabled, consumer) ==
    [id |-> id, name |-> name, enabled |-> enabled, consumer |-> consumer]
Consumer(id, username) == [id |-> id, username |-> username, custom_id |-> None]

NominalPlugins ==
    << Item("p1", "key-auth", "true", None),
       Item("p2", "rate-limiting", "true", Some("c1")),
       Item("p3", "rate-limiting", "absent", Some("c2")) >>
NominalConsumers == << Consumer("c1", "free_user"), Consumer("c2", "pro_user") >>

Admin(cp, plugins_status, plugins, consumers_status, consumers) ==
    [cp |-> cp, plugins_status |-> plugins_status, plugins |-> plugins,
     consumers_status |-> consumers_status, consumers |-> consumers]
NominalAdmin == Admin("found", 200, NominalPlugins, 200, NominalConsumers)

Classes == {"RT001", "RT002", "RT003", "RT004", "RT005", "RT006",
            "CF001", "CF002", "CF003"}

\* a gateway that enforces every control: each check passes
Nominal(cls) ==
    CASE cls = "RT001" -> <<200, 200, 200, 200, 200, 429, 429, 429>>
      [] cls = "RT002" -> [i \in 1..RT002_num_requests |-> 200]
      [] cls \in {"RT003", "RT004"} -> Resp(401, EmptyJson)
      [] cls = "RT005" -> Resp(200, HealthBody)
      [] cls = "RT006" -> Resp(200, WhoamiBody("tier_pro"))
      [] OTHER -> NominalAdmin

\* the other answers considered for a check
Deviations(cls) ==
    CASE cls = "RT001" -> { [i \in 1..RT001_num_requests |-> 200],
                            [i \in 1..RT001_num_requests |->
                                IF i = 1 THEN 429 ELSE TransportError] }
      [] cls = "RT002" -> { [i \in 1..RT002_num_requests |->
                                IF i = RT002_num_requests THEN 429 ELSE 200] }
      [] cls \in {"RT003", "RT004"} ->
            { Resp(200, EmptyJson), Resp(TransportError, EmptyJson) }
      [] cls = "RT005" -> { Resp(401, Body("text", "absent", None)),
                            Resp(TransportError, EmptyJson) }
      [] cls = "RT006" -> { Resp(200, WhoamiBody("tier_free")),
                            Resp(200, Body("list", "absent", None)) }
      [] cls = "CF001" ->
            { Admin("found", 200, << Item("p1", "key-auth", "false", None) >>,
                    200, NominalConsumers),
              Admin("http_error", 200, NominalPlugins, 200, NominalConsumers) }
      [] cls = "CF002" ->
            { Admin("found", 200, << Item("p2", "rate-limiting", "true", None) >>,
                    200, NominalConsumers),
              Admin("absent", 200, NominalPlugins, 200, NominalConsumers) }
      [] cls = "CF003" ->
            { Admin("found", 200, NominalPlugins, 200,
                    Append(NominalConsumers, Consumer("c3", "new_user"))),
              Admin("found", 200, NominalPlugins, 500, NominalConsumers),
              Admin("found", 200, NominalPlugins, 200, << >>) }

Answers(cls) == {Nominal(cls)} \cup Deviations(cls)

NominalGateway == [cls \in Classes |-> Nominal(cls)]

GatewayFaults(g) == Cardinality({cls \in Classes : g[cls] # Nominal(cls)})

\* the gateways that deviate from the nominal one for at most n checks
Gateways(n) ==
    { g \in [RT001 : Answers("RT001"), RT002 : Answers("RT002"),
             RT003 : Answers("RT003"), RT004 : Answers("RT004"),
             RT005 : Answers("RT005"), RT006 : Answers("RT006"),
             CF001 : Answers("CF001"), CF002 : Answers("CF002"),
             CF003 : Answers("CF003")] : GatewayFaults(g) <= n }

\* what one request of a burst may end with: 200, 429, or no response
BurstStatuses == {200, 429, TransportError}
Bursts(n, statuses) == [1..n -> statuses]

\* the sequences of at most n elements of S
SeqsUpTo(S, n) == UNION { [1..k -> S] : k \in 0..n }

\* entries of /plugins and /consumers a control plane may hold
PluginItems ==
    { Item("p1", "rate-limiting", "true", Some("c1")),
      Item("p2", "rate-limiting", "true", Some("c2")),
      Item("p3", "rate-limiting", "false", Some("c1")),
      Item("p4", "rate-limiting", "absent", Some("c2")),
      Item("p5", "rate-limiting", "true", None),
      Item("p6", "key-auth", "true", Some("c1")) }
ConsumerItems ==
    { Consumer("c1", "free_user"), Consumer("c2", "pro_user"),
      Consumer("c3", "new_user") }

\* every answer considered for one check taken alone
Inputs(cls) ==
    CASE cls = "RT001" -> Bursts(RT001_num_requests, BurstStatuses \cup {500})
      [] cls = "RT002" -> Bursts(RT002_num_requests, BurstStatuses)
      [] cls \in {"RT003", "RT004"} ->
            { Resp(st, EmptyJson) : st \in {200, 401, 403, 404, 500, TransportError} }
      [] cls = "RT005" ->
            { Resp(st, b) : st \in {200, 401, 500, TransportError},
                            b \in {HealthBody, Body("text", "absent", None)} }
      [] cls = "RT006" ->
            { Resp(st, b) : st \in {200, 401, TransportError},
                            b \in { WhoamiBody("tier_pro"), WhoamiBody("tier_free"),
                                    WhoamiBody("TIER_PRO"), WhoamiBody(""),
                                    Body("dict", "dict", None),
                                    Body("dict", "absent", None),
                                    Body("dict", "null", None),
                                    Body("list", "absent", None),
                                    Body("text", "absent", None) } }
      [] cls = "CF003" ->
            { Admin("found", 200, pl, 200, co) :
                 pl \in SeqsUpTo(PluginItems, MaxItems),
                 co \in SeqsUpTo(ConsumerItems, MaxItems) }
            \cup Deviations("CF003")
      [] OTHER -> Answers(cls)

----------------------------------------------------------------------------
(* A check that is any subclass of BaseTest: what its execute may do *)

GenericTest(n) ==
    Test("GEN",
         CASE n = 1 -> "GEN-001" [] n = 2 -> "GEN-002" [] n = 3 -> "GEN-003"
           [] OTHER -> "GEN-004",
         "Generic check", <<"CC1.1">>, None, None)

GenericDetails == << <<"key", "value">> >>
GenericArtifact == EvidenceArtifact("note", "generic artifact", "data")
NotADataclass == [GenericArtifact EXCEPT !.dataclass = FALSE]

GenericOutcomes ==
    { Returned(r, GenericDetails, << GenericArtifact >>) : r \in TestResult }
    \cup { Returned("PASS", EmptyDict, EmptyList),
           Returned("not a TestResult", GenericDetails, << GenericArtifact >>),
           Returned("FAIL", GenericDetails, << NotADataclass >>),
           ReturnedNone }
    \cup { Raised(e.type, e.msg) :
             e \in { [type |-> "ConnectionError", msg |-> "connection refused"],
                     [type |-> "KeyError", msg |-> "id"],
                     [type |-> "ValueError", msg |-> ""] } }

\* what execute() of a check may do in the current state
Outcomes(test, handle, gateway) ==
    IF test.cls = "GEN" THEN GenericOutcomes
    ELSE { Execute(test, handle, gateway[test.cls]) }

----------------------------------------------------------------------------
(* config.py *)

\* the settings read with os.environ[...], in the order from_env reads them
RequiredVariables == <<"KONNECT_TOKEN", "DATAPLANE_URL", "DRATA_API_KEY">>
Required == {RequiredVariables[i] : i \in 1..Len(RequiredVariables)}

\* the KeyError load_config raises: the first required variable that is unset
FirstMissing(missing) ==
    RequiredVariables[CHOOSE i \in 1..Len(RequiredVariables) :
        /\ RequiredVariables[i] \in missing
        /\ \A j \in 1..(i - 1) : RequiredVariables[j] \notin missing]

\* Config.from_env: DRY_RUN and VERBOSE are true when they lower-case to "true"
load_config(e) ==
    [dry_run |-> e.DRY_RUN, verbose |-> e.VERBOSE,
     free_trial_key |-> "free-trial-key", pro_key |-> "pro-key"]

\* main's "Override with CLI flags": only --dry-run rebuilds the Config
CliOverride(cfg, a) ==
    IF a.dry_run
    THEN [cfg EXCEPT !.dry_run = TRUE, !.verbose = a.verbose \/ cfg.verbose]
    ELSE cfg

----------------------------------------------------------------------------
(* clients/drata.py *)

\* DrataEvidencePayload built by push_to_drata from an Evidence
DrataEvidencePayload(ev) ==
    [test_id |-> ev.test_id, test_name |-> ev.test_name, result |-> ev.result,
     timestamp |-> ev.timestamp, control_ids |-> ev.control_mapping,
     details |-> ev.details, artifacts |-> ev.artifacts]

\* to_dict that reports a skipped check as passing
to_dict_skip_passing(p) ==
    [externalId |-> p.test_id, name |-> p.test_name,
     status |-> IF p.result \in {"PASS", "SKIP"} THEN "PASSING" ELSE "FAILING",
     lastTestedAt |-> p.timestamp, controlIds |-> p.control_ids,
     evidence |-> [details |-> p.details, artifacts |-> p.artifacts]]

\* DrataEvidencePayload.to_dict
to_dict(p) ==
    [externalId |-> p.test_id, name |-> p.test_name,
     status |-> IF p.result = "PASS" THEN "PASSING" ELSE "FAILING",
     lastTestedAt |-> p.timestamp, controlIds |-> p.control_ids,
     evidence |-> [details |-> p.details, artifacts |-> p.artifacts]]

\* str.lower() on the test ids
Lower(id) ==
    CASE id = "RT-001" -> "rt-001" [] id = "RT-002" -> "rt-002"
      [] id = "RT-003" -> "rt-003" [] id = "RT-004" -> "rt-004"
      [] id = "RT-005" -> "rt-005" [] id = "RT-006" -> "rt-006"
      [] id = "CF-001" -> "cf-001" [] id = "CF-002" -> "cf-002"
      [] id = "CF-003" -> "cf-003" [] id = "GEN-001" -> "gen-001"
      [] id = "GEN-002" -> "gen-002" [] id = "GEN-003" -> "gen-003"
      [] OTHER -> "gen-004"

MonitorId(test_id) == "kong-" \o Lower(test_id)

\* DrataMockClient.submit_external_evidence: the handle afterwards.  The
\* dry-run branch of push_to_drata prints and does not call it (see PushOne).
MockSubmit(client, monitor_id, payload) ==
    [client EXCEPT !.submitted_evidence =
        Append(@, [monitor_id |-> monitor_id, payload |-> to_dict(payload)])]

\* what a POST to the Drata API may end with
SinkOutcomes == {"ok", "http_error", "transport_error", "bad_json"}

\* DrataClient.submit_external_evidence: the exception it raises, or None
SubmitException(outcome) ==
    CASE outcome = "transport_error" -> Some(ConnectionErrorExc)
      [] outcome = "http_error" -> Some([type |-> "HTTPError", msg |-> "403 Client Error"])
      [] outcome = "bad_json" -> Some([type |-> "JSONDecodeError", msg |-> "Expecting value"])
      [] OTHER -> None

----------------------------------------------------------------------------
(* main.py *)

\* create_tests leaving the configuration checks out of a dry run
create_tests_dry_run_skips(cfg) ==
    << RT001_RateLimitFreeTier(cfg.free_trial_key),
       RT002_RateLimitProTier(cfg.pro_key),
       RT003_InvalidKeyRejected,
       RT004_MissingKeyRejected,
       RT005_ValidKeyAccepted(cfg.pro_key),
       RT006_ConsumerIdentityInjected(cfg.pro_key, "tier_pro") >>
    \o (IF cfg.dry_run THEN << >>
        ELSE << CF001_AuthPluginEnabled, CF002_RateLimitPluginEnabled,
                CF003_AllConsumersHaveLimits >>)

\* create_tests
create_tests(cfg) ==
    << RT001_RateLimitFreeTier(cfg.free_trial_key),
       RT002_RateLimitProTier(cfg.pro_key),
       RT003_InvalidKeyRejected,
       RT004_MissingKeyRejected,
       RT005_ValidKeyAccepted(cfg.pro_key),
       RT006_ConsumerIdentityInjected(cfg.pro_key, "tier_pro"),
       CF001_AuthPluginEnabled,
       CF002_RateLimitPluginEnabled,
       CF003_AllConsumersHaveLimits >>

\* how far the wall clock moves between two readings: a millisecond when
\* nothing happens to it, backwards when it is stepped
NominalDelta == TicksPerMs
ClockDeltas == {NominalDelta, 0 - TicksPerMs, 0 - 1}
DeltaCost(d) == IF d = NominalDelta THEN 0 ELSE 1

IsPass(r) == r.result = "PASS"
IsFail(r) == r.result = "FAIL"
IsError(r) == r.result = "ERROR"
IsFailOrError(r) == r.result \in {"FAIL", "ERROR"}

\* the "Summary stats" of print_summary
SummaryStats(res) ==
    [total  |-> Len(res),
     passed |-> Count(res, IsPass),
     failed |-> Count(res, IsFail),
     errors |-> Count(res, IsError)]

\* failed_count that looks at FAIL only
failed_count_fail_only(res) == Count(res, IsFail)

\* failed_count at the end of main
failed_count(res) == Count(res, IsFailOrError)

\* the exit status main ends with
ExitStatus(res) == IF failed_count(res) > 0 THEN 1 ELSE 0

\* the lines run_tests prints for one test
ProgressLines(ev, verbose) ==
    << <<"running", ev.test_id, "">>, <<"result", ev.test_id, ev.result>> >>
    \o (IF verbose /\ ev.error_message # None /\ ev.error_message # Some("")
        THEN << <<"error", ev.test_id, ev.error_message[1]>> >> ELSE << >>)

\* the KeyError handler without its sys.exit(1): the run goes on with the
\* settings that are there
ConfigFailureContinues ==
    /\ pc = "load"
    /\ env.missing # {}
    /\ console' = Append(console, <<"missing", FirstMissing(env.missing), "">>)
    /\ LET cfg == CliOverride(load_config(env), args) IN
        /\ config' = Some(cfg)
        /\ drata' = [kind |-> IF cfg.dry_run THEN "mock" ELSE "live",
                     verbose |-> cfg.verbose, submitted_evidence |-> << >>]
        /\ tests' = create_tests(cfg)
        /\ run_count' = [i \in 1..Len(create_tests(cfg)) |-> 0]
    /\ pc' = "run"
    /\ UNCHANGED <<args, env, gw, konnect, dataplane, idx, results, clock,
                   summary, network, push_idx, exported, exit_code, faults,
                   executed, prev>>

\* load_config raised KeyError: report and sys.exit(1)
ConfigFailure ==
    /\ pc = "load"
    /\ env.missing # {}
    /\ console' = Append(console, <<"missing", FirstMissing(env.missing), "">>)
    /\ exit_code' = Some(1)
    /\ pc' = "done"
    /\ UNCHANGED <<args, env, config, gw, konnect, dataplane, tests, idx, results,
                   run_count, clock, summary, drata, network, push_idx,
                   exported, faults, executed, prev>>

\* load_config, the CLI override, the clients and create_tests
Startup ==
    /\ pc = "load"
    /\ env.missing = {}
    /\ LET cfg == CliOverride(load_config(env), args) IN
        /\ config' = Some(cfg)
        /\ drata' = [kind |-> IF cfg.dry_run THEN "mock" ELSE "live",
                     verbose |-> cfg.verbose, submitted_evidence |-> << >>]
        /\ tests' = create_tests(cfg)
        /\ run_count' = [i \in 1..Len(create_tests(cfg)) |-> 0]
    /\ pc' = "run"
    /\ UNCHANGED <<args, env, gw, konnect, dataplane, idx, results, clock, console,
                   summary, network, push_idx, exported, exit_code, faults, executed, prev>>

\* results.insert(0, evidence)
PrependResult(res, ev) == << ev >> \o res

\* results.append(evidence)
AppendResult(res, ev) == Append(res, ev)

\* the number of requests execute() sends to the data plane: one for each
\* turn of the loop of test_rate_limit, one for a single-request check
DataplaneRequests(test, gateway) ==
    CASE test.cls = "RT001" ->
            Len(test_rate_limit(gateway.RT001, RT001_num_requests))
      [] test.cls = "RT002" ->
            Len(test_rate_limit(gateway.RT002, RT002_num_requests))
      [] test.cls \in {"RT003", "RT004", "RT005", "RT006"} -> 1
      [] OTHER -> 0

\* one iteration of the loop of run_tests: test.run(), append, print; an
\* exception that leaves run() leaves run_tests and main as well
RunTest ==
    /\ pc = "run"
    /\ idx < Len(tests)
    /\ LET test == tests[idx + 1] IN
       \E out \in Outcomes(test, konnect, gw) :
       \E d1 \in ClockDeltas, d2 \in ClockDeltas, d3 \in ClockDeltas,
          d4 \in IF ReadsClockTwice(out) THEN ClockDeltas ELSE {NominalDelta} :
          LET ts == clock + d1
              start == ts + d2
              end == start + d3
              end2 == end + d4
              last == IF ReadsClockTwice(out) THEN end2 ELSE end
              ev == Run(test, out, ts, start, end, end2)
              cost == DeltaCost(d1) + DeltaCost(d2) + DeltaCost(d3) + DeltaCost(d4)
          IN  /\ faults + cost <= MaxFaults
              /\ faults' = faults + cost
              /\ clock' = last
              /\ executed' = Append(executed,
                     [out |-> out, ts |-> ts, start |-> start, end |-> last,
                      sent |-> DataplaneRequests(test, gw)])
              /\ konnect' = KonnectAfter(test, konnect, gw[test.cls])
              /\ IF Propagates(out)
                 THEN /\ pc' = "crashed"
                      /\ exit_code' = Some(1)
                      /\ console' = Append(console, <<"running", test.test_id, "">>)
                      /\ UNCHANGED <<results, idx>>
                 ELSE /\ results' = AppendResult(results, ev)
                      /\ console' = console \o ProgressLines(ev, config[1].verbose)
                      /\ idx' = idx + 1
                      /\ UNCHANGED <<pc, exit_code>>
    /\ run_count' = [run_count EXCEPT ![idx + 1] = @ + 1]
    /\ UNCHANGED <<args, env, config, gw, dataplane, tests, summary, drata,
                   network, push_idx, exported, prev>>

\* run_tests returns its results
RunTestsReturn ==
    /\ pc = "run"
    /\ idx = Len(tests)
    /\ pc' = "summary"
    /\ UNCHANGED <<args, env, config, gw, konnect, dataplane, tests, idx, results,
                   run_count, clock, console, summary, drata, network, push_idx,
                   exported, exit_code, faults, executed, prev>>

\* print_summary
PrintSummary ==
    /\ pc = "summary"
    /\ summary' = Some(SummaryStats(results))
    /\ pc' = "push"
    /\ UNCHANGED <<args, env, config, gw, konnect, dataplane, tests, idx, results,
                   run_count, clock, console, drata, network, push_idx,
                   exported, exit_code, faults, executed, prev>>

\* the loop with the try/except around it: the first failure ends the loop
AfterSubmitAborting(i, outcome, n) == IF outcome = "ok" THEN i + 1 ELSE n

\* the loop of push_to_drata after a submission: the try/except is inside
\* the loop body, so the loop goes on to the next record whatever happened
AfterSubmit(i, outcome, n) == i + 1

\* one iteration of the loop of push_to_drata
PushOne ==
    /\ pc = "push"
    /\ push_idx < Len(results)
    /\ LET evidence == results[push_idx + 1]
           payload == DrataEvidencePayload(evidence)
           monitor_id == MonitorId(evidence.test_id)
       IN  IF config[1].dry_run
           THEN /\ console' = Append(console, <<"would_push", evidence.test_id, monitor_id>>)
                /\ push_idx' = AfterSubmit(push_idx, "ok", Len(results))
                /\ UNCHANGED <<network, faults>>
           ELSE \E outcome \in SinkOutcomes :
                  /\ faults + (IF outcome = "ok" THEN 0 ELSE 1) <= MaxFaults
                  /\ faults' = faults + (IF outcome = "ok" THEN 0 ELSE 1)
                  /\ network' = Append(network,
                         [monitor_id |-> monitor_id, payload |-> to_dict(payload),
                          outcome |-> outcome])
                  /\ console' = Append(console,
                         IF SubmitException(outcome) = None
                         THEN <<"pushed", evidence.test_id, "">>
                         ELSE <<"push_failed", evidence.test_id,
                                StrExc(SubmitException(outcome)[1])>>)
                  /\ push_idx' = AfterSubmit(push_idx, outcome, Len(results))
    /\ UNCHANGED <<pc, args, env, config, gw, konnect, dataplane, tests, idx, results,
                   run_count, clock, summary, drata, exported, exit_code, executed, prev>>

\* push_to_drata returns
PushReturn ==
    /\ pc = "push"
    /\ push_idx = Len(results)
    /\ pc' = "export"
    /\ UNCHANGED <<args, env, config, gw, konnect, dataplane, tests, idx, results,
                   run_count, clock, console, summary, drata, network, push_idx,
                   exported, exit_code, faults, executed, prev>>

\* "Write results to file if requested"
WriteOutput ==
    /\ pc = "export"
    /\ exported' = IF args.output THEN Some([results |-> results]) ELSE None
    /\ pc' = "exit"
    /\ UNCHANGED <<args, env, config, gw, konnect, dataplane, tests, idx, results,
                   run_count, clock, console, summary, drata, network, push_idx,
                   exit_code, faults, executed, prev>>

\* an exit that also reports a submission that failed
ExitFailsOnPushFailure ==
    /\ pc = "exit"
    /\ exit_code' = Some(IF \E i \in 1..Len(network) : network[i].outcome # "ok"
                         THEN 1 ELSE ExitStatus(results))
    /\ pc' = "done"
    /\ UNCHANGED <<args, env, config, gw, konnect, dataplane, tests, idx, results,
                   run_count, clock, console, summary, drata, network, push_idx,
                   exported, faults, executed, prev>>

\* "Exit with error if any tests failed"
Exit ==
    /\ pc = "exit"
    /\ exit_code' = Some(ExitStatus(results))
    /\ pc' = "done"
    /\ UNCHANGED <<args, env, config, gw, konnect, dataplane, tests, idx, results,
                   run_count, clock, console, summary, drata, network, push_idx,
                   exported, faults, executed, prev>>

NoArgs == [dry_run |-> FALSE, verbose |-> FALSE, output |-> FALSE]
NoConfig == None
NewKonnect == [control_plane_id |-> None]
NewDataplane == [base_url |-> "https://dataplane", timeout |-> 30]
NoDrata == [kind |-> "none", verbose |-> FALSE, submitted_evidence |-> << >>]

\* the process is started with some command line and some environment,
\* against some gateway
Init ==
    /\ pc = "load"
    /\ args \in [dry_run : BOOLEAN, verbose : BOOLEAN, output : BOOLEAN]
    /\ env \in [missing : SUBSET Required, DRY_RUN : BOOLEAN, VERBOSE : BOOLEAN]
    /\ gw \in IF env.missing = {} THEN Gateways(MaxFaults) ELSE {NominalGateway}
    /\ faults = GatewayFaults(gw)
    /\ config = NoConfig
    /\ konnect = NewKonnect
    /\ dataplane = NewDataplane
    /\ tests = << >>
    /\ idx = 0
    /\ results = << >>
    /\ run_count = << >>
    /\ clock = 0
    /\ console = << >>
    /\ summary = None
    /\ drata = NoDrata
    /\ network = << >>
    /\ push_idx = 0
    /\ exported = None
    /\ exit_code = None
    /\ executed = << >>
    /\ prev = None

Next ==
    \/ ConfigFailure
    \/ Startup
    \/ RunTest
    \/ RunTestsReturn
    \/ PrintSummary
    \/ PushOne
    \/ PushReturn
    \/ WriteOutput
    \/ Exit

Spec == Init /\ [][Next]_vars

----------------------------------------------------------------------------
(* run_tests and print_summary over a list of arbitrary BaseTest subclasses *)

GenericTests(n) == [i \in 1..n |-> GenericTest(i)]

InitRun ==
    /\ pc = "run"
    /\ args = NoArgs
    /\ env = [missing |-> {}, DRY_RUN |-> FALSE, VERBOSE |-> FALSE]
    /\ gw = NominalGateway
    /\ faults = 0
    /\ \E verbose \in BOOLEAN :
          config = Some([load_config(env) EXCEPT !.verbose = verbose])
    /\ konnect = NewKonnect
    /\ dataplane = NewDataplane
    /\ \E n \in 1..MaxTests :
          /\ tests = GenericTests(n)
          /\ run_count = [i \in 1..n |-> 0]
    /\ idx = 0
    /\ results = << >>
    /\ clock = 0
    /\ console = << >>
    /\ summary = None
    /\ drata = NoDrata
    /\ network = << >>
    /\ push_idx = 0
    /\ exported = None
    /\ exit_code = None
    /\ executed = << >>
    /\ prev = None

NextRun ==
    \/ RunTest
    \/ RunTestsReturn
    \/ PrintSummary

SpecRun == InitRun /\ [][NextRun]_vars

----------------------------------------------------------------------------
(* Two runs of main against the same gateway: a dry run, then a live run *)

\* what a finished run leaves to compare: the checks run, in order, with
\* their outcomes, the summary counts and the exit status
Observable ==
    [checks  |-> [i \in 1..Len(results) |->
                     <<results[i].test_id, results[i].result>>],
     summary |-> summary,
     exit    |-> exit_code]

InitPair ==
    /\ Init
    /\ env.missing = {}
    /\ ~args.output
    /\ args.dry_run \/ env.DRY_RUN

\* the same command is started again without the dry-run setting
Rerun ==
    /\ pc = "done"
    /\ prev = None
    /\ prev' = Some(Observable)
    /\ args' = [args EXCEPT !.dry_run = FALSE]
    /\ env' = [env EXCEPT !.DRY_RUN = FALSE]
    /\ pc' = "load"
    /\ faults' = GatewayFaults(gw)
    /\ config' = NoConfig
    /\ konnect' = NewKonnect
    /\ dataplane' = NewDataplane
    /\ tests' = << >>
    /\ idx' = 0
    /\ results' = << >>
    /\ run_count' = << >>
    /\ console' = << >>
    /\ summary' = None
    /\ drata' = NoDrata
    /\ network' = << >>
    /\ push_idx' = 0
    /\ exported' = None
    /\ exit_code' = None
    /\ executed' = << >>
    /\ UNCHANGED <<gw, clock>>

NextPair ==
    \/ Startup
    \/ RunTest
    \/ RunTestsReturn
    \/ PrintSummary
    \/ PushOne
    \/ PushReturn
    \/ WriteOutput
    \/ Exit
    \/ Rerun

SpecPair == InitPair /\ [][NextPair]_vars

----------------------------------------------------------------------------
(* run_tests, print_summary and push_to_drata over arbitrary BaseTest
   subclasses, with the clock and the sink left undisturbed *)

\* the lists of up to n checks, the same check allowed more than once
GenericLists(n) ==
    UNION { [1..k -> {GenericTest(1), GenericTest(2)}] : k \in 1..n }

InitPush ==
    /\ pc = "run"
    /\ args = NoArgs
    /\ \E dry_run \in BOOLEAN :
          /\ env = [missing |-> {}, DRY_RUN |-> dry_run, VERBOSE |-> FALSE]
          /\ config = Some(load_config(env))
          /\ drata = [kind |-> IF dry_run THEN "mock" ELSE "live",
                      verbose |-> FALSE, submitted_evidence |-> << >>]
    /\ gw = NominalGateway
    /\ faults = MaxFaults
    /\ konnect = NewKonnect
    /\ dataplane = NewDataplane
    /\ tests \in GenericLists(MaxTests)
    /\ run_count = [i \in 1..Len(tests) |-> 0]
    /\ idx = 0
    /\ results = << >>
    /\ clock = 0
    /\ console = << >>
    /\ summary = None
    /\ network = << >>
    /\ push_idx = 0
    /\ exported = None
    /\ exit_code = None
    /\ executed = << >>
    /\ prev = None

NextPush ==
    \/ RunTest
    \/ RunTestsReturn
    \/ PrintSummary
    \/ PushOne
    \/ PushReturn

SpecPush == InitPush /\ [][NextPush]_vars

----------------------------------------------------------------------------
(* One check of create_tests run alone against any answer to it, with the
   clock left undisturbed *)

CheckedClasses == {"RT001", "RT002", "RT003", "RT004", "RT005", "RT006", "CF003"}

NominalEnv == [missing |-> {}, DRY_RUN |-> FALSE, VERBOSE |-> FALSE]

InitCheck ==
    /\ pc = "run"
    /\ args = NoArgs
    /\ env = NominalEnv
    /\ config = Some(load_config(NominalEnv))
    /\ \E i \in 1..Len(create_tests(load_config(NominalEnv))) :
          LET test == create_tests(load_config(NominalEnv))[i] IN
          /\ test.cls \in CheckedClasses
          /\ tests = << test >>
          /\ \E a \in Inputs(test.cls) :
                gw = [NominalGateway EXCEPT ![test.cls] = a]
    /\ faults = MaxFaults
    /\ konnect = NewKonnect
    /\ dataplane = NewDataplane
    /\ run_count = << 0 >>
    /\ idx = 0
    /\ results = << >>
    /\ clock = 0
    /\ console = << >>
    /\ summary = None
    /\ drata = NoDrata
    /\ network = << >>
    /\ push_idx = 0
    /\ exported = None
    /\ exit_code = None
    /\ executed = << >>
    /\ prev = None

NextCheck ==
    \/ RunTest
    \/ RunTestsReturn

SpecCheck == InitCheck /\ [][NextCheck]_vars

----------------------------------------------------------------------------
(* A live run of main's steps after create_tests over arbitrary BaseTest
   subclasses: the checks, the summary, the submissions, the exit *)

InitLive ==
    /\ pc = "run"
    /\ args = NoArgs
    /\ env = NominalEnv
    /\ config = Some(load_config(NominalEnv))
    /\ drata = [kind |-> "live", verbose |-> FALSE, submitted_evidence |-> << >>]
    /\ gw = NominalGateway
    /\ faults = 0
    /\ konnect = NewKonnect
    /\ dataplane = NewDataplane
    /\ \E n \in 1..MaxTests :
          /\ tests = GenericTests(n)
          /\ run_count = [i \in 1..n |-> 0]
    /\ idx = 0
    /\ results = << >>
    /\ clock = 0
    /\ console = << >>
    /\ summary = None
    /\ network = << >>
    /\ push_idx = 0
    /\ exported = None
    /\ exit_code = None
    /\ executed = << >>
    /\ prev = None

NextLive ==
    \/ RunTest
    \/ RunTestsReturn
    \/ PrintSummary
    \/ PushOne
    \/ PushReturn
    \/ WriteOutput
    \/ Exit

SpecLive == InitLive /\ [][NextLive]_vars

----------------------------------------------------------------------------
(* Properties *)

Finished == pc \in {"summary", "push", "export", "exit", "done"}
Pushed == pc \in {"export", "exit", "done"}
Loaded == config # NoConfig
DryRun == Loaded /\ config[1].dry_run
Live == Loaded /\ ~config[1].dry_run
Failing(ev) == ev.result \in {"FAIL", "ERROR"}

\* C1: whatever execute does, run() hands exactly one Evidence back, its
\* result is one of PASS, FAIL, ERROR, SKIP, and no exception leaves run()
C1_RunAlwaysReturnsEvidence ==
    /\ pc # "crashed"
    /\ Len(results) = Len(executed)
    /\ \A i \in 1..Len(results) : results[i].result \in TestResult

C1_Witness ==
    /\ Len(results) = 2
    /\ executed[1].out.kind = "raise"
    /\ results[1].result = "ERROR"
    /\ executed[2].out.kind = "return"
    /\ results[2].result = "SKIP"

\* C2 as stated: error_message is set if and only if result == ERROR
C2_Original ==
    \A i \in 1..Len(results) :
        (results[i].error_message # None) <=> (results[i].result = "ERROR")

\* C2 as amended: error_message is set only if result == ERROR, and an
\* Evidence with result ERROR lacks it only when execute itself returned
\* the ERROR outcome
C2_ErrorMessageOnlyWithError ==
    \A i \in 1..Len(results) :
        /\ results[i].error_message # None => results[i].result = "ERROR"
        /\ (results[i].result = "ERROR" /\ results[i].error_message = None)
              => (executed[i].out.kind = "return" /\ executed[i].out.result = "ERROR")

C2_Witness ==
    /\ Len(results) = 2
    /\ executed[1].out.kind = "return"
    /\ executed[1].out.result = "ERROR"
    /\ results[1].result = "ERROR"
    /\ results[1].error_message = None
    /\ executed[2].out.kind = "raise"
    /\ results[2].error_message # None

\* C3: when execute raises, the Evidence has result ERROR, no details, no
\* artifacts and str(e) as error_message, and still carries the check's id,
\* name and control mapping and the timestamp read at the start
C3_RaisedBecomesError ==
    \A i \in 1..Len(results) :
        executed[i].out.kind = "raise" =>
            /\ results[i].result = "ERROR"
            /\ results[i].details = EmptyDict
            /\ results[i].artifacts = EmptyList
            /\ results[i].error_message =
                  Some(IF executed[i].out.exc.type = "KeyError"
                       THEN "'id'" ELSE executed[i].out.exc.msg)
            /\ results[i].test_id = tests[i].test_id
            /\ results[i].test_name = tests[i].test_name
            /\ results[i].control_mapping = tests[i].control_mapping
            /\ results[i].timestamp = IsoFormat(executed[i].ts)

C3_Witness ==
    /\ Len(results) >= 1
    /\ executed[1].out.kind = "raise"
    /\ executed[1].out.exc.type = "KeyError"
    /\ results[1].error_message = Some("'id'")
    /\ results[1].test_id = "GEN-001"

\* C4: duration_ms is never negative, however the clock behaves
C4_Original ==
    \A i \in 1..Len(results) : results[i].duration_ms >= 0

\* C5: the run loop leaves one Evidence per check, the i-th from the i-th
\* check, and has invoked every check's run exactly once, whatever the
\* earlier checks ended in
C5_OneEvidencePerCheckInOrder ==
    /\ Len(results) = idx
    /\ idx <= Len(tests)
    /\ \A i \in 1..Len(results) : results[i].test_id = tests[i].test_id
    /\ \A i \in 1..Len(tests) : run_count[i] = IF i <= idx THEN 1 ELSE 0
    /\ Finished /\ Loaded =>
          /\ Len(results) = Len(tests)
          /\ \A i \in 1..Len(tests) : run_count[i] = 1

C5_Witness ==
    /\ pc = "summary"
    /\ Len(results) = Len(tests)
    /\ Len(tests) = 9
    /\ Failing(results[3])
    /\ results[9].test_id = "CF-003"

\* C6: a run that got to its results exits with 1 if and only if some result
\* is FAIL or ERROR, and with 0 otherwise; the only other exit is the one for
\* a missing required setting, with 1 and before there is any result
C6_ExitCodeFromResults ==
    /\ pc = "done" /\ Loaded =>
          exit_code = Some(IF \E i \in 1..Len(results) : Failing(results[i])
                           THEN 1 ELSE 0)
    /\ pc = "done" /\ ~Loaded => exit_code = Some(1) /\ results = << >>
    /\ pc # "done" => exit_code = None

C6_Witness ==
    /\ pc = "done"
    /\ Loaded
    /\ exit_code = Some(1)
    /\ \E i \in 1..Len(results) : results[i].result = "ERROR"
    /\ \A i \in 1..Len(results) : results[i].result # "FAIL"

\* the skipped count of a summary, 0 when the summary has none
SkippedOf(stats) == IF "skipped" \in DOMAIN stats THEN stats.skipped ELSE 0

\* C7: the summary's counts per outcome add up to the total
C7_Original ==
    summary # None =>
        summary[1].passed + summary[1].failed + summary[1].errors
            + SkippedOf(summary[1]) = summary[1].total

\* C8: after a dry run's push phase the mock sink holds one entry per
\* Evidence, in results order, and nothing went to the real platform
C8_Original ==
    Pushed /\ DryRun =>
        /\ Len(drata.submitted_evidence) = Len(results)
        /\ \A i \in 1..Len(drata.submitted_evidence) :
              drata.submitted_evidence[i].monitor_id = MonitorId(results[i].test_id)
        /\ network = << >>

\* C9: in live mode every record is submitted exactly once, in results
\* order, whichever submissions fail
C9_EveryRecordSubmittedOnce ==
    Live =>
        /\ Len(network) = push_idx
        /\ \A i \in 1..Len(network) :
              /\ network[i].monitor_id = MonitorId(results[i].test_id)
              /\ network[i].payload.externalId = results[i].test_id
        /\ Pushed => Len(network) = Len(results)

C9_Witness ==
    /\ Live
    /\ pc = "export"
    /\ Len(network) = 9
    /\ network[2].outcome = "http_error"
    /\ network[3].outcome = "ok"
    /\ network[9].monitor_id = "kong-cf-003"

TargetOf(test_id) ==
    CASE test_id = "GEN-001" -> "kong-gen-001"
      [] test_id = "GEN-002" -> "kong-gen-002"
      [] test_id = "GEN-003" -> "kong-gen-003"
      [] test_id = "GEN-004" -> "kong-gen-004"
      [] test_id = "RT-001" -> "kong-rt-001"
      [] test_id = "RT-002" -> "kong-rt-002"
      [] test_id = "RT-003" -> "kong-rt-003"
      [] test_id = "RT-004" -> "kong-rt-004"
      [] test_id = "RT-005" -> "kong-rt-005"
      [] test_id = "RT-006" -> "kong-rt-006"
      [] test_id = "CF-001" -> "kong-cf-001"
      [] test_id = "CF-002" -> "kong-cf-002"
      [] OTHER -> "kong-cf-003"

\* C11: a submitted payload has status PASSING when the Evidence result is
\* PASS and FAILING for FAIL, ERROR and SKIP; the payload is made of the
\* Evidence's own fields and nothing else, so the same Evidence gives the same
\* payload; the target is "kong-" followed by the lower-cased check id
C11_StatusAndTarget ==
    /\ Live =>
          \A i \in 1..Len(network) :
             /\ results[i].result = "PASS" => network[i].payload.status = "PASSING"
             /\ results[i].result \in {"FAIL", "ERROR", "SKIP"}
                   => network[i].payload.status = "FAILING"
             /\ network[i].payload =
                   [externalId   |-> results[i].test_id,
                    name         |-> results[i].test_name,
                    status       |-> network[i].payload.status,
                    lastTestedAt |-> results[i].timestamp,
                    controlIds   |-> results[i].control_mapping,
                    evidence     |-> [details   |-> results[i].details,
                                      artifacts |-> results[i].artifacts]]
             /\ network[i].monitor_id = TargetOf(results[i].test_id)
             /\ \A j \in 1..Len(network) :
                   results[j].test_id = results[i].test_id
                      => network[j].monitor_id = network[i].monitor_id
    /\ DryRun =>
          \A i \in 1..Len(console) :
             console[i][1] = "would_push" => console[i][3] = TargetOf(console[i][2])

C11_Witness ==
    /\ Live
    /\ pc = "export"
    /\ Len(network) = 2
    /\ results[1].result = "SKIP"
    /\ network[1].payload.status = "FAILING"
    /\ results[2].result = "PASS"
    /\ network[2].payload.status = "PASSING"
    /\ results[1].test_id = results[2].test_id
    /\ network[2].monitor_id = "kong-gen-001"

\* C12: with a required setting missing the process exits with 1 and nothing
\* else happens: no check is built or run, no request goes to the gateway
\* and nothing is submitted
C12_MissingSettingExitsBeforeChecks ==
    env.missing # {} =>
        /\ pc \in {"load", "done"}
        /\ pc = "done" => exit_code = Some(1)
        /\ ~Loaded
        /\ tests = << >>
        /\ run_count = << >>
        /\ executed = << >>
        /\ results = << >>
        /\ konnect = NewKonnect
        /\ dataplane = NewDataplane
        /\ network = << >>
        /\ drata = NoDrata
        /\ \A i \in 1..Len(console) : console[i][1] = "missing"

C12_Witness ==
    /\ pc = "done"
    /\ env.missing = {"DRATA_API_KEY"}
    /\ exit_code = Some(1)
    /\ console = << <<"missing", "DRATA_API_KEY", "">> >>
    /\ executed = << >>

\* C13: with --verbose on the command line the run is verbose, with or
\* without --dry-run: the error message of every check that has one is printed
C13_Original ==
    Loaded /\ args.verbose =>
        /\ config[1].verbose
        /\ \A i \in 1..Len(results) :
              results[i].error_message \notin {None, Some("")} =>
                 \E k \in 1..Len(console) :
                    console[k] = <<"error", results[i].test_id,
                                   results[i].error_message[1]>>

\* what a burst request is recorded as: its status, 0 when it got no response
Recorded(st) == IF st = TransportError THEN 0 ELSE st

\* the value stored under a key of a details dict or of an artifact dict
ValueOf(dict, key) ==
    dict[CHOOSE k \in 1..Len(dict) : dict[k][1] = key][2]

\* C14: the free-tier check sends 8 requests and ends in PASS exactly when at
\* least one of the 8 statuses is 429 and at most 5 of them are 200, in FAIL
\* otherwise
C14_FreeTierPassIff ==
    \A i \in 1..Len(results) :
        tests[i].cls = "RT001" =>
            LET codes == gw.RT001
                limited == \E j \in 1..8 : codes[j] = 429
                successes == Cardinality({j \in 1..8 : codes[j] = 200})
            IN  /\ executed[i].sent = 8
                /\ results[i].result =
                      IF limited /\ successes <= 5 THEN "PASS" ELSE "FAIL"

C14_Witness ==
    /\ Len(results) = 1
    /\ tests[1].cls = "RT001"
    /\ gw.RT001 = <<200, 200, 200, 200, 200, 429, 429, 429>>
    /\ results[1].result = "PASS"
    /\ executed[1].sent = 8

\* C15: the pro-tier check sends 10 requests and ends in PASS exactly when
\* all 10 statuses are 200; a 429 or a request without response (code 0)
\* among them gives FAIL
C15_ProTierPassIff ==
    \A i \in 1..Len(results) :
        tests[i].cls = "RT002" =>
            /\ executed[i].sent = 10
            /\ results[i].result =
                  IF \A j \in 1..10 : gw.RT002[j] = 200 THEN "PASS" ELSE "FAIL"

C15_Witness ==
    /\ Len(results) = 1
    /\ tests[1].cls = "RT002"
    /\ \A j \in 1..9 : gw.RT002[j] = 200
    /\ gw.RT002[10] = TransportError
    /\ results[1].result = "FAIL"

\* C16: when the request of the invalid-key or of the missing-key check gets
\* a response, the check ends in PASS exactly when the status is 401
C16_RejectedPassIff401 ==
    \A i \in 1..Len(results) :
        (tests[i].cls \in {"RT003", "RT004"}
            /\ gw[tests[i].cls].status # TransportError) =>
            results[i].result =
                IF gw[tests[i].cls].status = 401 THEN "PASS" ELSE "FAIL"

C16_Witness ==
    /\ Len(results) = 1
    /\ tests[1].cls = "RT004"
    /\ gw.RT004.status = 403
    /\ results[1].result = "FAIL"

\* C17: the identity-injection check ends in PASS exactly when the whoami
\* status is 200 and the body's consumer.custom_id is the expected identity,
\* letter for letter; a body without a consumer field compares the empty
\* string and ends in FAIL
C17_IdentityPassIff ==
    \A i \in 1..Len(results) :
        tests[i].cls = "RT006" =>
            LET r == gw.RT006
                answered == r.status # TransportError
                injected ==
                    /\ answered
                    /\ r.body.kind = "dict"
                    /\ r.body.consumer = "dict"
                    /\ r.body.custom_id = tests[i].expected_custom_id
            IN  /\ results[i].result = "PASS" <=> (r.status = 200 /\ injected)
                /\ (answered /\ r.body.kind = "dict" /\ r.body.consumer = "absent") =>
                      /\ results[i].result = "FAIL"
                      /\ ValueOf(results[i].details, "actual_custom_id") = ""

C17_Witness ==
    /\ Len(results) = 1
    /\ tests[1].cls = "RT006"
    /\ gw.RT006 = Resp(200, Body("dict", "absent", None))
    /\ results[1].result = "FAIL"
    /\ ValueOf(results[1].details, "actual_custom_id") = ""

\* the consumer ids of the enabled rate-limiting plugins that are scoped to
\* a consumer, read off the /plugins answer
LimitedConsumers(plugins) ==
    { plugins[k].consumer[1] :
        k \in { j \in 1..Len(plugins) :
                  /\ plugins[j].name = "rate-limiting"
                  /\ plugins[j].enabled # "false"
                  /\ plugins[j].consumer # None } }

\* C18: the all-consumers-have-limits check ends in FAIL for an empty
\* consumer list, in PASS when there are consumers and each has an enabled
\* consumer-scoped rate-limiting plugin, and in FAIL when one has none;
\* details.missing_limits lists the usernames of those, in consumer order
C18_AllConsumersHaveLimits ==
    \A i \in 1..Len(results) :
        (tests[i].cls = "CF003" /\ executed[i].out.kind = "return") =>
            LET a == gw.CF003
                limited == LimitedConsumers(a.plugins)
                Bare(c) == c.id \notin limited
                bare == SelectSeq(a.consumers, Bare)
            IN  /\ a.consumers = << >> => results[i].result = "FAIL"
                /\ (a.consumers # << >> /\ bare = << >>) => results[i].result = "PASS"
                /\ bare # << >> => results[i].result = "FAIL"
                /\ ValueOf(results[i].details, "missing_limits") =
                      [k \in 1..Len(bare) |-> bare[k].username]

C18_Witness ==
    /\ Len(results) = 1
    /\ tests[1].cls = "CF003"
    /\ gw.CF003.consumers = << Consumer("c3", "new_user"), Consumer("c1", "free_user") >>
    /\ gw.CF003.plugins = << Item("p1", "rate-limiting", "true", Some("c1")) >>
    /\ results[1].result = "FAIL"
    /\ ValueOf(results[1].details, "missing_limits") = << "new_user" >>

\* C19: a single-request runtime check whose request got no response ends
\* in ERROR, made by run()
C19_Original ==
    \A i \in 1..Len(results) :
        (tests[i].cls \in {"RT003", "RT004", "RT005", "RT006"}
            /\ gw[tests[i].cls].status = TransportError) =>
            results[i].result = "ERROR"

\* C20: a burst of n requests sends n requests and records n statuses in
\* request order, 0 for a request without response, whatever the statuses
\* are; that sequence is the data of the check's artifact
C20_BurstRunsToCompletion ==
    \A i \in 1..Len(results) :
        tests[i].cls \in {"RT001", "RT002"} =>
            LET n == IF tests[i].cls = "RT001" THEN 8 ELSE 10
                codes == gw[tests[i].cls]
                data == ValueOf(results[i].artifacts[1], "data")
            IN  /\ executed[i].sent = n
                /\ Len(results[i].artifacts) = 1
                /\ Len(data) = n
                /\ \A j \in 1..n : data[j] = Recorded(codes[j])

C20_Witness ==
    /\ Len(results) = 1
    /\ tests[1].cls = "RT001"
    /\ gw.RT001[1] = 429
    /\ gw.RT001[2] = TransportError
    /\ gw.RT001[8] = 200
    /\ ValueOf(results[1].artifacts[1], "data")[8] = 200
    /\ ValueOf(results[1].artifacts[1], "data")[2] = 0
    /\ executed[1].sent = 8

\* C21: the two client handles the checks share stay as they were
\* constructed, whichever checks have executed
C21_Original ==
    /\ konnect = NewKonnect
    /\ dataplane = NewDataplane

\* C22: the exit status of a live run is decided by the check results alone:
\* 0 when every result is PASS or SKIP and 1 otherwise, whether the
\* submissions all succeeded, some failed or all failed
C22_ExitIgnoresSubmissions ==
    (pc = "done" /\ Live) =>
        /\ Len(network) = Len(results)
        /\ exit_code =
              Some(IF \A i \in 1..Len(results) : results[i].result \in {"PASS", "SKIP"}
                   THEN 0 ELSE 1)

C22_Witness ==
    /\ pc = "done"
    /\ Live
    /\ Len(results) >= 1
    /\ \A i \in 1..Len(results) : results[i].result = "PASS"
    /\ \A i \in 1..Len(network) : network[i].outcome # "ok"
    /\ Len(network) = Len(results)
    /\ exit_code = Some(0)

====
